---- MODULE Spec2Model ----
(***************************************************************************)
(* A run of the sea-level notebook: the code cells of                      *)
(* Plot_Sea_Level_From_a_GFDL_Boussinesq_Ocean_Model.ipynb ("main") and of *)
(* its earlier Colab variant ("colab") executed top to bottom in one       *)
(* kernel, stopping at the first cell that raises.                         *)
(*                                                                         *)
(* The notebook is glue around intake-esm, gcsfs, xarray, momlevel and     *)
(* matplotlib.  What those libraries return for given remote data is not   *)
(* in the notebook: a catalog search returns some table, a remote call     *)
(* either returns or raises, and the model draws both from small sets.     *)
(* What the notebook itself fixes is modelled exactly: the order of the    *)
(* cells, the names each cell binds and reads, the variables it takes      *)
(* from the dataset, and the arguments it passes on.                       *)
(***************************************************************************)
EXTENDS Integers, Sequences, FiniteSets, TLC

\* Longest time axis a remote store is given in the model.
MaxTime == 362

\* Number of grid cells of the horizontal grid in the model.
MaxCells == 2

\* slice(-360, None): the trailing window handed to momlevel.steric.
Window == 360

\* threshold=75.0 of momlevel.extract_tidegauge.
Threshold == 75

Min(a, b) == IF a < b THEN a ELSE b
Max(a, b) == IF a > b THEN a ELSE b

None == "None"

(***************************************************************************)
(* The two notebooks and their code cells, in file order.                  *)
(***************************************************************************)
Notebooks == {"main", "colab"}

\* The main notebook with the global-mean cell moved above the load cell.
MainCellsComputeFirst ==
  << "install", "imports", "open_catalog", "search_zos", "global_mean",
     "load_zos", "plot_fields", "extract_tidegauge", "plot_tidegauge",
     "plot_global_mean", "search_steric", "load_steric", "steric",
     "plot_steric" >>

MainCells ==
  << "install", "imports", "open_catalog", "search_zos", "load_zos",
     "plot_fields", "extract_tidegauge", "plot_tidegauge", "global_mean",
     "plot_global_mean", "search_steric", "load_steric", "steric",
     "plot_steric" >>

ColabCells ==
  << "install", "imports", "open_catalog", "search_zos", "show_df",
     "load_zos", "plot_fields", "global_mean", "plot_global_mean",
     "search_steric", "show_df2", "load_steric", "load_deptho", "show_ds",
     "steric", "steric_change", "empty" >>

CodeCells(nb) == IF nb = "main" THEN MainCells ELSE ColabCells

(***************************************************************************)
(* Remote data.  A catalog row names a variable and the store holding it;  *)
(* a store opened with xr.open_zarr is a dataset of that one variable.     *)
(* The monthly (Omon) variables carry a time axis, the fixed (Ofx) ones    *)
(* do not.                                                                 *)
(***************************************************************************)
VarOrder == << "areacello", "zos", "volcello", "thetao", "so" >>
VarIds == { VarOrder[i] : i \in 1..Len(VarOrder) }
StaticVars == {"areacello", "deptho"}

\* Tables a search may return: any selection of the stores, in catalog order.
RECURSIVE SubSeqOf(_, _)
SubSeqOf(seq, keep) ==
  IF seq = << >> THEN << >>
  ELSE IF Head(seq) \in keep THEN << Head(seq) >> \o SubSeqOf(Tail(seq), keep)
       ELSE SubSeqOf(Tail(seq), keep)

Tables == { SubSeqOf(VarOrder, keep) : keep \in SUBSET VarIds }

\* Lengths of the time axis the remote stores may have.
TimeLens == {0, 1, Window - 1, Window, Window + 1, MaxTime}

\* Named tide-gauge locations the extraction may return.
Locations == {"NEW_YORK", "OTHER_GAUGE"}

(***************************************************************************)
(* Values of the name ds: unbound, the list of per-store datasets, or one  *)
(* dataset.  A time axis of length n is the sequence of its steps 1..n.    *)
(***************************************************************************)
\* The grid cells, and where a field is missing (NaN) at the two time steps
\* the notebook indexes: the first, isel(time=0), and the last, isel(time=-1).
Grid == 1..MaxCells
NoField == [first |-> {}, last |-> {}]

Unbound ==
  [kind |-> "unbound", items |-> << >>, vars |-> {}, ntime |-> 0,
   zosNull |-> NoField, wet |-> << >>]
DsList(items) ==
  [kind |-> "list", items |-> items, vars |-> {}, ntime |-> 0,
   zosNull |-> NoField, wet |-> << >>]
Dataset(vars, n) ==
  [kind |-> "dataset", items |-> << >>, vars |-> vars, ntime |-> n,
   zosNull |-> NoField, wet |-> << >>]

\* The missing cells a zos store with n time steps may have.
ZosFields(n) ==
  IF n = 0 THEN { NoField }
  ELSE IF n = 1 THEN { [first |-> a, last |-> a] : a \in SUBSET Grid }
  ELSE { [first |-> a, last |-> b] : a \in SUBSET Grid, b \in SUBSET Grid }

WithZos(d, z) == [d EXCEPT !.zosNull = z]

\* The mask taken from the last time step instead: ds.zos.isel(time=-1).
WetMaskFromLast(d) == [g \in Grid |-> IF g \in d.zosNull.last THEN 0 ELSE 1]

\* xr.where(ds.zos.isel(time=0).isnull(), 0.0, 1.0)
WetMask(d) == [g \in Grid |-> IF g \in d.zosNull.first THEN 0 ELSE 1]

TimeAxis(n) == [i \in 1..n |-> i]

\* ds = [xr.open_zarr(x, consolidated=True) for x in mappers]
OpenAll(table, n) ==
  [i \in 1..Len(table) |->
     [vars |-> {table[i]}, ntime |-> IF table[i] \in StaticVars THEN 0 ELSE n]]

RECURSIVE MaxTimeOf(_)
MaxTimeOf(items) ==
  IF items = << >> THEN 0 ELSE Max(Head(items).ntime, MaxTimeOf(Tail(items)))

\* ds = xr.merge(ds), when it returns: one dataset over the listed ones.
Merged(items) ==
  Dataset(UNION { items[i].vars : i \in 1..Len(items) }, MaxTimeOf(items))

\* ds["name"] = value
SetItem(d, name) == [d EXCEPT !.vars = @ \cup {name}]

Has(d, name) == d.kind = "dataset" /\ name \in d.vars

\* ds["wet"] = xr.where(ds.zos.isel(time=0).isnull(), 0.0, 1.0)
SetWet(d) == [SetItem(d, "wet") EXCEPT !.wet = WetMask(d)]

(***************************************************************************)
(* ds.isel(time=slice(start, None)): Python's slice on an axis of length n *)
(***************************************************************************)
SliceStart(start, n) == IF start < 0 THEN Max(start + n, 0) ELSE Min(start, n)

ISelFrom(axis, start) ==
  LET s == SliceStart(start, Len(axis))
  IN  [i \in 1..(Len(axis) - s) |-> axis[s + i]]

\* The same call with the sign of the slice start dropped: slice(360, None).
StericArgsFromWindow(d) ==
  [times |-> ISelFrom(TimeAxis(d.ntime), Window),
   vars |-> d.vars,
   domain |-> "global",
   coord_names |-> [z |-> "lev"]]

\* momlevel.steric(ds.isel(time=slice(-360, None)), domain="global",
\*                 coord_names={"z": "lev"})
StericArgs(d) ==
  [times |-> ISelFrom(TimeAxis(d.ntime), 0 - Window),
   vars |-> d.vars,
   domain |-> "global",
   coord_names |-> [z |-> "lev"]]

\* momlevel.extract_tidegauge(ds.zos, ds.lon, ds.lat, mask=ds.wet, threshold=75.0)
TideArgs(d) ==
  [field |-> "zos", fieldNull |-> d.zosNull,
   mask |-> "wet", maskValue |-> d.wet,
   threshold |-> Threshold]

(***************************************************************************)
(* The names of the kernel.  DataReads(c) are the names cell c reads       *)
(* before binding them itself, so their values come from an earlier cell;  *)
(* Writes(nb, c) are the names the cell binds or, for ds["deptho"] = ...,  *)
(* updates in place.  The names bound by the import cell are library       *)
(* modules and are left out.                                               *)
(***************************************************************************)
\* The reads of the cells, with the last plot cell drawing steric instead of
\* steric_change.
DataReadsPlotSteric(c) ==
  CASE c \in {"search_zos", "search_steric"} -> {"col"}
    [] c \in {"show_df", "show_df2", "load_zos", "load_steric"} -> {"df"}
    [] c \in {"plot_fields", "extract_tidegauge", "global_mean", "load_deptho",
              "show_ds", "steric"} -> {"ds"}
    [] c = "plot_tidegauge" -> {"ds_tide_gauge"}
    [] c = "plot_global_mean" -> {"ssh_global_monthly", "ssh_global_annual"}
    [] c = "steric_change" -> {"steric"}
    [] c = "plot_steric" -> {"steric"}
    [] OTHER -> {}

DataReads(c) ==
  CASE c \in {"search_zos", "search_steric"} -> {"col"}
    [] c \in {"show_df", "show_df2", "load_zos", "load_steric"} -> {"df"}
    [] c \in {"plot_fields", "extract_tidegauge", "global_mean", "load_deptho",
              "show_ds", "steric"} -> {"ds"}
    [] c = "plot_tidegauge" -> {"ds_tide_gauge"}
    [] c = "plot_global_mean" -> {"ssh_global_monthly", "ssh_global_annual"}
    [] c = "steric_change" -> {"steric"}
    [] c = "plot_steric" -> {"steric_change"}
    [] OTHER -> {}

\* The reads made before the statement of the cell that can raise.  In
\* ds["deptho"] = xr.open_zarr(...).deptho.load() the right-hand side is
\* evaluated, and raises, before ds is looked up.
RaiseReads(c) == IF c = "load_deptho" THEN {} ELSE DataReads(c)

Writes(nb, c) ==
  CASE c = "open_catalog" -> {"cat_url", "col"}
    [] c \in {"search_zos", "search_steric"} -> {"datasets", "df"}
    [] c \in {"load_zos", "load_steric"} -> {"fs", "zstores", "mappers", "ds"}
    [] c = "load_deptho" -> {"ds"}
    [] c = "plot_fields" -> {"fig", "ax1", "ax2", "_"}
    [] c = "extract_tidegauge" -> {"ds_tide_gauge"}
    [] c = "plot_tidegauge" -> {"location", "data", "data_annual", "fig", "ax"}
    [] c = "global_mean" -> {"ssh_global_monthly", "ssh_global_annual"}
    [] c \in {"plot_global_mean", "plot_steric"} -> {"fig", "ax"}
    [] c = "steric" -> IF nb = "main" THEN {"steric", "steric_change"}
                                     ELSE {"steric"}
    [] c = "steric_change" -> {"steric_change"}
    [] OTHER -> {}

\* The cell that last bound name, among the cells that ran to their end.
RECURSIVE LastWriter(_, _, _)
LastWriter(nb, done, name) ==
  IF done = << >> THEN None
  ELSE IF name \in Writes(nb, done[Len(done)]) THEN done[Len(done)]
       ELSE LastWriter(nb, SubSeq(done, 1, Len(done) - 1), name)

\* The values cell c takes from earlier cells: << name, writer, reader >>.
FlowsInto(nb, done, c, reads) ==
  { << name, LastWriter(nb, done, name), c >> :
      name \in { r \in reads : LastWriter(nb, done, r) # None } }

VARIABLES
  notebook,   \* which notebook is run
  pc,         \* index of the next code cell
  status,     \* "running", "failed" (a cell raised) or "done"
  log,        \* the cells executed so far, in order
  df,         \* the table bound to df, or None
  ds,         \* the value bound to ds
  gauges,     \* the locations in ds_tide_gauge, or None
  tideCalls,  \* the argument lists passed to extract_tidegauge so far
  stericCalls, \* the argument lists passed to momlevel.steric so far
  flows       \* the values passed from one cell to a later one so far

vars ==
  << notebook, pc, status, log, df, ds, gauges, tideCalls, stericCalls, flows >>

Init ==
  /\ notebook \in Notebooks
  /\ pc = 1
  /\ status = "running"
  /\ log = << >>
  /\ df = None
  /\ ds = Unbound
  /\ gauges = None
  /\ tideCalls = << >>
  /\ stericCalls = << >>
  /\ flows = {}

At(c) ==
  /\ status = "running"
  /\ pc <= Len(CodeCells(notebook))
  /\ CodeCells(notebook)[pc] = c

\* The cell ran to its end: the kernel moves to the next cell.
Finish(c) ==
  /\ log' = Append(log, c)
  /\ pc' = pc + 1
  /\ status' = IF pc + 1 > Len(CodeCells(notebook)) THEN "done" ELSE "running"
  /\ flows' = flows \cup FlowsInto(notebook, log, c, DataReads(c))
  /\ UNCHANGED notebook

\* A statement of the cell raised: nothing catches it and the run stops.
Raise(c) ==
  /\ log' = Append(log, c)
  /\ pc' = pc
  /\ status' = "failed"
  /\ flows' = flows \cup FlowsInto(notebook, log, c, RaiseReads(c))
  /\ UNCHANGED notebook

(***************************************************************************)
(* The cells.  A remote call (a catalog fetch, a store read, a library     *)
(* computation on lazily loaded data) may raise in any run; a cell that    *)
(* takes a variable the dataset does not have raises in every run.         *)
(***************************************************************************)

\* ! pip install momlevel intake intake-esm   (a shell escape never raises)
Install ==
  /\ At("install")
  /\ Finish("install")
  /\ UNCHANGED << df, ds, gauges, tideCalls, stericCalls >>

\* import xarray as xr ... %matplotlib inline
Imports ==
  /\ At("imports")
  /\ \/ Finish("imports")
     \/ Raise("imports")
  /\ UNCHANGED << df, ds, gauges, tideCalls, stericCalls >>

\* col = intake.open_esm_datastore(cat_url)
OpenCatalog ==
  /\ At("open_catalog")
  /\ \/ Finish("open_catalog")
     \/ Raise("open_catalog")
  /\ UNCHANGED << df, ds, gauges, tideCalls, stericCalls >>

\* datasets = col.search(...); df = datasets.df
Search(c) ==
  /\ At(c)
  /\ \/ /\ \E t \in Tables : df' = t
        /\ Finish(c)
     \/ /\ Raise(c)
        /\ UNCHANGED df
  /\ UNCHANGED << ds, gauges, tideCalls, stericCalls >>

SearchZos == Search("search_zos")

SearchSteric == Search("search_steric")

\* df   /   ds   /   the empty last cell of the Colab notebook
Display ==
  /\ \E c \in {"show_df", "show_df2", "show_ds", "empty"} :
       /\ At(c)
       /\ Finish(c)
  /\ UNCHANGED << df, ds, gauges, tideCalls, stericCalls >>

\* fs = ...; zstores = df.zstore.values; mappers = [...];
\* ds = [xr.open_zarr(x, consolidated=True) for x in mappers]; ds = xr.merge(ds)
\* main: ds["wet"] = xr.where(ds.zos.isel(time=0).isnull(), 0.0, 1.0)
LoadZos ==
  /\ At("load_zos")
  /\ \E n \in TimeLens :
     \E z \in ZosFields(IF \E i \in 1..Len(df) : df[i] = "zos" THEN n ELSE 0) :
       LET items == OpenAll(df, n)
           m == WithZos(Merged(items), z)
           wetOk == Has(m, "zos") /\ n >= 1
       IN  \/ /\ df # << >>
              /\ Raise("load_zos")
              /\ UNCHANGED ds
           \/ /\ ds' = DsList(items)
              /\ Raise("load_zos")
           \/ /\ notebook = "main"
              /\ ~ wetOk
              /\ ds' = m
              /\ Raise("load_zos")
           \/ /\ notebook = "main" => wetOk
              /\ ds' = IF notebook = "main" THEN SetWet(m) ELSE m
              /\ Finish("load_zos")
  /\ UNCHANGED << df, gauges, tideCalls, stericCalls >>

\* ds.areacello.plot(ax=ax1); ds.zos.isel(time=-1).plot(ax=ax2)
PlotFields ==
  /\ At("plot_fields")
  /\ \/ /\ Has(ds, "areacello") /\ Has(ds, "zos") /\ ds.ntime >= 1
        /\ Finish("plot_fields")
     \/ Raise("plot_fields")
  /\ UNCHANGED << df, ds, gauges, tideCalls, stericCalls >>

\* ds_tide_gauge = momlevel.extract_tidegauge(ds.zos, ds.lon, ds.lat,
\*                                            mask=ds.wet, threshold=75.0)
ExtractTidegauge ==
  /\ At("extract_tidegauge")
  /\ \/ /\ Has(ds, "zos") /\ Has(ds, "wet")
        /\ tideCalls' = Append(tideCalls, TideArgs(ds))
        /\ \E g \in SUBSET Locations : gauges' = g
        /\ Finish("extract_tidegauge")
     \/ /\ tideCalls' = IF Has(ds, "zos") /\ Has(ds, "wet")
                        THEN Append(tideCalls, TideArgs(ds)) ELSE tideCalls
        /\ UNCHANGED gauges
        /\ Raise("extract_tidegauge")
  /\ UNCHANGED << df, ds, stericCalls >>

\* location = "NEW_YORK"; data = ds_tide_gauge[location].sel(...).load(); ...
PlotTidegauge ==
  /\ At("plot_tidegauge")
  /\ \/ /\ "NEW_YORK" \in gauges
        /\ Finish("plot_tidegauge")
     \/ Raise("plot_tidegauge")
  /\ UNCHANGED << df, ds, gauges, tideCalls, stericCalls >>

\* ssh_global_monthly = ds.zos.weighted(ds.areacello).mean(("y","x")).load()
\* ssh_global_annual = momlevel.util.annual_average(ssh_global_monthly).load()
GlobalMean ==
  /\ At("global_mean")
  /\ \/ /\ Has(ds, "zos") /\ Has(ds, "areacello")
        /\ Finish("global_mean")
     \/ Raise("global_mean")
  /\ UNCHANGED << df, ds, gauges, tideCalls, stericCalls >>

\* ax.plot(ssh_global_monthly...); ax.plot(ssh_global_annual...)
PlotGlobalMean ==
  /\ At("plot_global_mean")
  /\ Finish("plot_global_mean")
  /\ UNCHANGED << df, ds, gauges, tideCalls, stericCalls >>

\* the second load cell; main: ds["deptho"] = xr.open_zarr(...).deptho.load()
LoadSteric ==
  /\ At("load_steric")
  /\ \E n \in TimeLens :
       LET items == OpenAll(df, n)
           m == Merged(items)
       IN  \/ /\ df # << >>
              /\ Raise("load_steric")
              /\ UNCHANGED ds
           \/ /\ ds' = DsList(items)
              /\ Raise("load_steric")
           \/ /\ notebook = "main"
              /\ ds' = m
              /\ Raise("load_steric")
           \/ /\ ds' = IF notebook = "main" THEN SetItem(m, "deptho") ELSE m
              /\ Finish("load_steric")
  /\ UNCHANGED << df, gauges, tideCalls, stericCalls >>

\* colab: ds["deptho"] = xr.open_zarr(...).deptho.load()   in a cell of its own
LoadDeptho ==
  /\ At("load_deptho")
  /\ \/ /\ ds' = SetItem(ds, "deptho")
        /\ Finish("load_deptho")
     \/ /\ UNCHANGED ds
        /\ Raise("load_deptho")
  /\ UNCHANGED << df, gauges, tideCalls, stericCalls >>

HasTime(d) == d.kind = "dataset" /\ d.vars \ (StaticVars \cup {"wet"}) # {}

\* steric = momlevel.steric(ds.isel(time=slice(-360, None)), domain="global",
\*                          coord_names={"z": "lev"})
\* main: steric_change = steric[0].steric.load()
Steric ==
  /\ At("steric")
  /\ \/ /\ HasTime(ds)
        /\ stericCalls' = Append(stericCalls, StericArgs(ds))
        /\ Finish("steric")
     \/ /\ HasTime(ds)
        /\ stericCalls' = Append(stericCalls, StericArgs(ds))
        /\ Raise("steric")
     \/ /\ ~ HasTime(ds)
        /\ UNCHANGED stericCalls
        /\ Raise("steric")
  /\ UNCHANGED << df, ds, gauges, tideCalls >>

\* colab: steric_change = steric[0].steric.load()   in a cell of its own
StericChange ==
  /\ At("steric_change")
  /\ \/ Finish("steric_change")
     \/ Raise("steric_change")
  /\ UNCHANGED << df, ds, gauges, tideCalls, stericCalls >>

\* ax.plot(steric_change.time, steric_change*100)
PlotSteric ==
  /\ At("plot_steric")
  /\ Finish("plot_steric")
  /\ UNCHANGED << df, ds, gauges, tideCalls, stericCalls >>

Next ==
  \/ Install
  \/ Imports
  \/ OpenCatalog
  \/ SearchZos
  \/ Display
  \/ LoadZos
  \/ PlotFields
  \/ ExtractTidegauge
  \/ PlotTidegauge
  \/ GlobalMean
  \/ PlotGlobalMean
  \/ SearchSteric
  \/ LoadSteric
  \/ LoadDeptho
  \/ Steric
  \/ StericChange
  \/ PlotSteric

Spec == Init /\ [][Next]_vars

TypeOK ==
  /\ notebook \in Notebooks
  /\ pc \in 1..(Len(CodeCells(notebook)) + 1)
  /\ status \in {"running", "failed", "done"}
  /\ ds.kind \in {"unbound", "list", "dataset"}

(***************************************************************************)
(* The four logical steps.  What a cell does places it in a step: it       *)
(* queries the catalog, loads remote datasets, computes a derived          *)
(* quantity or draws.  The tide-gauge plot cell computes, then draws.      *)
(***************************************************************************)
StepKinds(c) ==
  CASE c \in {"open_catalog", "search_zos", "search_steric"} -> << "query" >>
    [] c \in {"load_zos", "load_steric", "load_deptho"} -> << "load" >>
    [] c \in {"extract_tidegauge", "global_mean", "steric", "steric_change"}
         -> << "compute" >>
    [] c = "plot_tidegauge" -> << "compute", "viz" >>
    [] c \in {"plot_fields", "plot_global_mean", "plot_steric"} -> << "viz" >>
    [] OTHER -> << >>

\* The dataset a cell works on: the surface-height one (1) or the steric one (2).
Pass(c) ==
  CASE c \in {"search_zos", "show_df", "load_zos", "plot_fields",
              "extract_tidegauge", "plot_tidegauge", "global_mean",
              "plot_global_mean"} -> 1
    [] c \in {"search_steric", "show_df2", "load_steric", "load_deptho",
              "show_ds", "steric", "steric_change", "plot_steric"} -> 2
    [] OTHER -> 0

IsKind(c, k) == \E i \in 1..Len(StepKinds(c)) : StepKinds(c)[i] = k

RECURSIVE StepsOf(_)
StepsOf(cells) ==
  IF cells = << >> THEN << >> ELSE StepKinds(Head(cells)) \o StepsOf(Tail(cells))

Rank(k) ==
  CASE k = "query" -> 1 [] k = "load" -> 2 [] k = "compute" -> 3 [] k = "viz" -> 4

(***************************************************************************)
(* C9.  Whenever momlevel.steric has been called, the dataset it was given *)
(* is the merged dataset cut to its last 360 time steps in their original  *)
(* order (all of them when there are fewer than 360), with domain "global" *)
(* and the vertical coordinate z mapped to "lev", and the dataset already  *)
(* holds the ocean-floor depth deptho, added by a load cell that ran       *)
(* before the steric cell.                                                 *)
(***************************************************************************)
C9_StericInput ==
  \A c \in 1..Len(stericCalls) :
    LET call == stericCalls[c]
        n == ds.ntime
        k == IF n < Window THEN n ELSE Window
    IN  /\ ds.kind = "dataset"
        /\ Len(call.times) = k
        /\ \A i \in 1..k : call.times[i] = n - k + i
        /\ call.vars = ds.vars
        /\ "deptho" \in call.vars
        /\ call.domain = "global"
        /\ DOMAIN call.coord_names = {"z"}
        /\ call.coord_names.z = "lev"
        /\ \E i, j \in 1..Len(log) :
             /\ i < j
             /\ log[i] \in {"load_steric", "load_deptho"}
             /\ log[j] = "steric"

\* The steric call has been made on a dataset longer than the window.
C9_Witness ==
  /\ Len(stericCalls) = 1
  /\ ds.ntime > Window
  /\ Len(stericCalls[1].times) = Window

(***************************************************************************)
(* C10 as stated.  The executed cells go through the four logical steps    *)
(* once, in the order query, load, compute, visualize: no executed cell    *)
(* belongs to an earlier step than a cell executed before it.              *)
(***************************************************************************)
C10_OnceInOrder ==
  LET steps == StepsOf(log)
  IN  \A i, j \in 1..Len(steps) : i < j => Rank(steps[i]) <= Rank(steps[j])

(***************************************************************************)
(* C10 as amended.  The code cells are executed in file order, each at     *)
(* most once and with no branching; every load cell runs after the catalog *)
(* query of its own pass has returned, and every cell that computes a      *)
(* derived quantity runs after the load cell of its own pass, on a merged  *)
(* dataset.  (The query-load-compute-visualize cycle itself runs twice,    *)
(* and visualization and computation alternate within a pass.)             *)
(***************************************************************************)
C10_Ordering ==
  /\ Len(log) <= Len(CodeCells(notebook))
  /\ \A i \in 1..Len(log) : log[i] = CodeCells(notebook)[i]
  /\ \A i, j \in 1..Len(log) : i < j => log[i] # log[j]
  /\ \A i \in 1..Len(log) :
       IsKind(log[i], "load") =>
         \E j \in 1..(i - 1) :
           /\ log[j] \in {"search_zos", "search_steric"}
           /\ Pass(log[j]) = Pass(log[i])
  /\ \A i \in 1..Len(log) :
       IsKind(log[i], "compute") =>
         \E j \in 1..(i - 1) :
           /\ log[j] \in {"load_zos", "load_steric"}
           /\ Pass(log[j]) = Pass(log[i])
  /\ (log # << >> /\ IsKind(log[Len(log)], "compute")) => ds.kind = "dataset"

\* A complete run of the main notebook: both passes were executed.
C10_Witness ==
  /\ status = "done"
  /\ notebook = "main"
  /\ Len(log) = Len(MainCells)
  /\ Len(stericCalls) = 1

\* Two cells belong to the same logical step when they share a step kind.
SameStep(w, r) ==
  \E k \in {"query", "load", "compute", "viz"} : IsKind(w, k) /\ IsKind(r, k)

(***************************************************************************)
(* C11 as stated.  The only value written in one step and read in a later, *)
(* different step is the dataset variable ds.                              *)
(***************************************************************************)
C11_OnlyDsCrosses ==
  \A f \in flows : ~ SameStep(f[2], f[3]) => f[1] = "ds"

(***************************************************************************)
(* C11 as amended.  The values written in one step and read in a later,    *)
(* different step are the dataset variable ds, the query's result table df *)
(* (read by the load step) and the derived series ssh_global_monthly,      *)
(* ssh_global_annual and steric_change (read by the visualization step).   *)
(* The other values that pass from one cell to a later one stay within a   *)
(* step: col between the catalog queries, ds_tide_gauge and steric between *)
(* computation cells.  Every other value is used only in the cell that     *)
(* produced it.                                                            *)
(***************************************************************************)
C11_SharedNames ==
  \A f \in flows :
    /\ f[2] # f[3]
    /\ f[1] \in {"ds", "df", "ssh_global_monthly", "ssh_global_annual",
                 "steric_change", "col", "ds_tide_gauge", "steric"}
    /\ ~ SameStep(f[2], f[3]) =>
         f[1] \in {"ds", "df", "ssh_global_monthly", "ssh_global_annual",
                   "steric_change"}

\* A complete run of the main notebook: df reached the load step and the
\* derived series reached the visualization step.
C11_Witness ==
  /\ status = "done"
  /\ notebook = "main"
  /\ << "df", "search_zos", "load_zos" >> \in flows
  /\ << "ds", "load_zos", "global_mean" >> \in flows
  /\ << "ssh_global_annual", "global_mean", "plot_global_mean" >> \in flows
  /\ << "steric_change", "steric", "plot_steric" >> \in flows

(***************************************************************************)
(* C12.  The wet mask held by the dataset is 1 at exactly the grid cells   *)
(* where zos is not missing at the first time step and 0 at every other    *)
(* cell, and the mask every tide-gauge extraction receives is that mask of *)
(* the field it receives: a cell missing at the first time step is dry for *)
(* the extraction whether or not it is missing at the last time step.      *)
(***************************************************************************)
C12_WetMask ==
  /\ Has(ds, "wet") =>
       /\ DOMAIN ds.wet = Grid
       /\ \A g \in Grid :
            /\ ds.wet[g] \in {0, 1}
            /\ ds.wet[g] = 1 <=> g \notin ds.zosNull.first
  /\ \A c \in 1..Len(tideCalls) :
       LET call == tideCalls[c]
       IN  /\ call.field = "zos"
           /\ call.mask = "wet"
           /\ \A g \in Grid :
                /\ g \in call.fieldNull.first => call.maskValue[g] = 0
                /\ g \notin call.fieldNull.first => call.maskValue[g] = 1

\* The extraction was given a field with a cell missing at the first time
\* step and present at the last one, masked as dry.
C12_Witness ==
  /\ Len(tideCalls) = 1
  /\ \E g \in Grid :
       /\ g \in tideCalls[1].fieldNull.first
       /\ g \notin tideCalls[1].fieldNull.last
       /\ tideCalls[1].maskValue[g] = 0

====
